---- MODULE Spec2Model ----
(***************************************************************************)
(* Task storage and query engine of the todo tool (phase1/src/todo):       *)
(* the Task entity, InMemoryStorage and FileStorage with its JSON backing  *)
(* file.  A client issues every call to one InMemoryStorage and one        *)
(* FileStorage with equal arguments (Spec); the FileStorage process may    *)
(* be restarted, which constructs a fresh engine on the same backing file  *)
(* (SpecRestart); list_tasks and search_tasks are also run on every        *)
(* collection of up to three tasks (SpecQuery).  Further runs: update_task *)
(* with any attribute name (SpecFields) and with status and title values   *)
(* (SpecValues); the commands of the CLI (SpecCli); a backing file found   *)
(* damaged and a write that fails (SpecFaults); a caller writing to the    *)
(* task get_task returned (SpecAlias); two FileStorage objects on one      *)
(* file (SpecTwo).                                                         *)
(*                                                                         *)
(* Encoding of Python values:                                              *)
(*   str used as text (title, description, query, tag): sequence of        *)
(*     one-character strings, so that lower() and `in` are computed;       *)
(*   str used as a token (id, status, priority, exception text): string;   *)
(*   ISO-8601 timestamps (now_iso): the number of the second, compared as  *)
(*     the strings compare;                                                *)
(*   Optional[x]: <<>> for None, <<x>> for a value;                        *)
(*   dict: sequence of [key, val] entries in insertion order.              *)
(***************************************************************************)
EXTENDS Integers, Sequences, FiniteSets, TLC

VARIABLES
    mem,     \* InMemoryStorage._tasks
    tasks,   \* FileStorage._tasks
    tasks2,  \* _tasks of a second FileStorage on the same file (another process)
    file,    \* content of ~/.todo_cli/tasks.json
    clock,   \* the wall clock read by now_iso()
    op,      \* the last call issued by the client
    resM,    \* its outcome on the InMemoryStorage
    resF     \* its outcome on the FileStorage

vars == <<mem, tasks, tasks2, file, clock, op, resM, resF>>

\* ------------------------------------------------------------------ bounds

\* The clock is observed at seconds 0..MaxClock.
MaxClock == 1

\* ------------------------------------------------------------ Python values

None == <<>>
Some(x) == <<x>>

\* Truthiness of a str used as text or of a list: "" and [] are falsy.
Truthy(v) == v /= <<>>

\* Truthiness taken as "is not None": "" and [] count as supplied.
TruthyOpt_NotNone(o) == o /= None

\* Truthiness of an Optional text or list: None, "" and [] are falsy.
TruthyOpt(o) == o /= None /\ o[1] /= <<>>

\* Truthiness of an Optional token: None and "" are falsy.
TruthyTok(o) == o /= None /\ o[1] /= ""

\* Texts used by the client.
Milk == <<"M", "i", "l", "k">>
Tea == <<"T", "e", "a">>
Work == <<"w", "o", "r", "k">>
Home == <<"h", "o", "m", "e">>
Empty == <<>>

\* str.lower() over the letters in use.
LowerChar(c) ==
    CASE c = "M" -> "m"
      [] c = "T" -> "t"
      [] c = "K" -> "k"
      [] c = "E" -> "e"
      [] OTHER -> c

lower(s) == [i \in 1..Len(s) |-> LowerChar(s[i])]

\* a in b for two str values: a occurs in b as a contiguous run ("" always does).
StrIn(a, b) ==
    \E i \in 0..(Len(b) - Len(a)) : SubSeq(b, i + 1, i + Len(a)) = a

\* x in xs for a list.
ListIn(x, xs) == \E i \in 1..Len(xs) : xs[i] = x

\* datetime.now(timezone.utc) rendered to the second.
now_iso == clock

\* ------------------------------------------------------------------- Task

TaskFields ==
    {"id", "title", "description", "status", "priority", "tags",
     "created_at", "modified_at", "due_date"}

\* The dataclass constructor: every field given, or its default.
Task(title, id, description, status, priority, tags, created_at, modified_at, due_date) ==
    [id |-> id, title |-> title, description |-> description, status |-> status,
     priority |-> priority, tags |-> tags, created_at |-> created_at,
     modified_at |-> modified_at, due_date |-> due_date]

\* to_dict that writes no modification stamp.
to_dict_NoModifiedAt(t) ==
    [id |-> t.id, title |-> t.title, description |-> t.description,
     status |-> t.status, priority |-> t.priority, tags |-> t.tags,
     created_at |-> t.created_at, modified_at |-> None,
     due_date |-> t.due_date]

\* Task.to_dict
to_dict(t) ==
    [id |-> t.id, title |-> t.title, description |-> t.description,
     status |-> t.status, priority |-> t.priority, tags |-> t.tags,
     created_at |-> t.created_at, modified_at |-> t.modified_at,
     due_date |-> t.due_date]

\* hasattr(task, key)
hasattr(t, key) == key \in DOMAIN t

\* setattr that puts a status back to pending when it is given the status
\* the task already has.
setattr_Toggle(t, key, value) ==
    IF key = "status" /\ t.status = value
    THEN [t EXCEPT !.status = "pending"]
    ELSE [t EXCEPT ![key] = value]

\* setattr(task, key, value)
setattr(t, key, value) == [t EXCEPT ![key] = value]

\* validate_priority: TRUE when it returns, FALSE when it raises ValueError.
\* The argument is the Optional encoding of the value passed.
validate_priority(priority) ==
    priority \in {Some("high"), Some("medium"), Some("low")}

\* ------------------------------------------------------------------- JSON

JNull == [t |-> "null"]
JStr(s) == [t |-> "string", v |-> s]
JArr(a) == [t |-> "array", v |-> a]

\* json.dump of a str-or-None value and of a list of str.
JsonOpt(o) == IF o = None THEN JNull ELSE JStr(o[1])
JsonList(l) == JArr([i \in 1..Len(l) |-> JStr(l[i])])

\* json.load of the same.
PyOpt(j) == IF j.t = "null" THEN None ELSE Some(j.v)
PyList(j) == [i \in 1..Len(j.v) |-> j.v[i].v]

\* json.dump of one to_dict() record.
JsonRecord(d) ==
    [id |-> JStr(d.id), title |-> JStr(d.title),
     description |-> JsonOpt(d.description), status |-> JStr(d.status),
     priority |-> JsonOpt(d.priority), tags |-> JsonList(d.tags),
     created_at |-> JStr(d.created_at), modified_at |-> JsonOpt(d.modified_at),
     due_date |-> JsonOpt(d.due_date)]

\* Task(**task_data) on one loaded record: a key the record lacks takes the
\* dataclass default.
TaskFromJson(j, now) ==
    Task(j.title.v,
         j.id.v,
         IF "description" \in DOMAIN j THEN PyOpt(j.description) ELSE None,
         IF "status" \in DOMAIN j THEN j.status.v ELSE "pending",
         IF "priority" \in DOMAIN j THEN PyOpt(j.priority) ELSE Some("medium"),
         IF "tags" \in DOMAIN j THEN PyList(j.tags) ELSE <<>>,
         IF "created_at" \in DOMAIN j THEN j.created_at.v ELSE now,
         IF "modified_at" \in DOMAIN j THEN PyOpt(j.modified_at) ELSE None,
         IF "due_date" \in DOMAIN j THEN PyOpt(j.due_date) ELSE None)

\* ------------------------------------------------------------------- dict

Keys(d) == {d[i].key : i \in 1..Len(d)}

Index(d, k) == CHOOSE i \in 1..Len(d) : d[i].key = k

\* d[k]
Lookup(d, k) == d[Index(d, k)].val

\* d[k] = v: a new key goes last, a present key keeps its place.
Store(d, k, v) ==
    IF k \in Keys(d)
    THEN [d EXCEPT ![Index(d, k)] = [key |-> k, val |-> v]]
    ELSE Append(d, [key |-> k, val |-> v])

\* del d[k]
Remove(d, k) ==
    LET i == Index(d, k)
    IN  SubSeq(d, 1, i - 1) \o SubSeq(d, i + 1, Len(d))

\* list(d.values())
Values(d) == [i \in 1..Len(d) |-> d[i].val]

\* ------------------------------------------------------------ backing file

NoFile == [exists |-> FALSE, parses |-> FALSE, obj |-> <<>>]
Garbage == [exists |-> TRUE, parses |-> FALSE, obj |-> <<>>]
JsonFile(obj) == [exists |-> TRUE, parses |-> TRUE, obj |-> obj]

\* Task(**task_data) returns: the record has a title and no key that is not
\* a field of Task (else TypeError).
Constructible(j) == "title" \in DOMAIN j /\ DOMAIN j \subseteq TaskFields

\* The loop of _load_tasks over the first n items of the loaded object: the
\* entries stored so far, and whether Task(**task_data) raised, which ends it.
RECURSIVE LoadLoop(_, _, _)
LoadLoop(obj, n, now) ==
    IF n = 0
    THEN [tasks |-> <<>>, raised |-> FALSE]
    ELSE LET r == LoadLoop(obj, n - 1, now)
         IN  IF r.raised THEN r
             ELSE IF Constructible(obj[n].val)
             THEN [tasks |-> Store(r.tasks, obj[n].key, TaskFromJson(obj[n].val, now)),
                   raised |-> FALSE]
             ELSE [tasks |-> r.tasks, raised |-> TRUE]

\* _load_tasks whose handler keeps what the loop had stored when it raised.
_load_tasks_KeepsLoaded(f, now) ==
    IF f.exists
    THEN IF f.parses
         THEN LoadLoop(f.obj, Len(f.obj), now).tasks
         ELSE <<>>
    ELSE <<>>

\* FileStorage._load_tasks: the collection a fresh engine holds.  Both
\* handlers (json.JSONDecodeError, Exception) leave it empty.
_load_tasks(f, now) ==
    IF f.exists
    THEN IF f.parses
         THEN LET r == LoadLoop(f.obj, Len(f.obj), now)
              IN  IF r.raised THEN <<>> ELSE r.tasks
         ELSE <<>>
    ELSE <<>>

\* FileStorage._save_tasks: the file content it writes.
_save_tasks(d) ==
    JsonFile([i \in 1..Len(d) |->
                 [key |-> d[i].key, val |-> JsonRecord(to_dict(d[i].val))]])

\* ------------------------------------------------------------- outcomes

\* What a call hands back to its caller: the exception raised, if any, and the
\* entities returned (get and update return one, list and search a list).
Returned(ret) == [kind |-> "ok", msg |-> "", ret |-> ret]
ValueError(msg) == [kind |-> "ValueError", msg |-> msg, ret |-> <<>>]
KeyError(msg) == [kind |-> "KeyError", msg |-> msg, ret |-> <<>>]

OSError(msg) == [kind |-> "OSError", msg |-> msg, ret |-> <<>>]

EmptyTitle == "Task title cannot be empty."
AlreadyExists == "Task with ID already exists."
NotFound == "Task with ID not found."
InvalidPriority == "Invalid priority. Must be 'high', 'medium', or 'low'."

WriteFailed == "write failed"
JSONDecodeError == "JSONDecodeError"

\* FileStorage.__init__ with no handler for json.JSONDecodeError.
File_init_Uncaught(f, now) ==
    IF f.exists /\ ~f.parses
    THEN [tasks |-> <<>>, out |-> ValueError(JSONDecodeError)]
    ELSE [tasks |-> _load_tasks(f, now), out |-> Returned(<<>>)]

\* FileStorage.__init__: the collection the new engine holds and what the
\* constructor hands to its caller; _load_tasks lets no exception out.
File_init(f, now) == [tasks |-> _load_tasks(f, now), out |-> Returned(<<>>)]

\* ------------------------------------------------- shared by both engines

\* The loop of update_task over kwargs.items(), from position i on: the task as
\* the loop leaves it, whether a field was set, and whether validate_priority
\* raised (which ends the loop where it stands).
RECURSIVE UpdateLoop(_, _, _, _)
UpdateLoop(task, kwargs, i, updated) ==
    IF i > Len(kwargs)
    THEN [task |-> task, updated |-> updated, raised |-> FALSE]
    ELSE LET key == kwargs[i][1]
             value == kwargs[i][2]
         IN  IF hasattr(task, key)
             THEN IF key = "priority" /\ ~validate_priority(value)
                  THEN [task |-> task, updated |-> updated, raised |-> TRUE]
                  ELSE UpdateLoop(setattr(task, key, value), kwargs, i + 1, TRUE)
             ELSE UpdateLoop(task, kwargs, i + 1, updated)

\* The sort key without its first component: created_at alone.
KeyLess_CreatedOnly(a, b) == a.created_at < b.created_at

\* The sort key of list_tasks and search_tasks, compared as Python compares the
\* tuples (status == 'completed', created_at).
KeyLess(a, b) ==
    LET ca == (a.status = "completed")
        cb == (b.status = "completed")
    IN  \/ ~ca /\ cb
        \/ ca = cb /\ a.created_at < b.created_at

\* A sort that is not stable: an element goes before those already placed
\* whose key is equal.
SortedInsert_BeforeEqual(r, x) ==
    LET n == Cardinality({i \in 1..Len(r) : KeyLess(r[i], x)})
    IN  SubSeq(r, 1, n) \o <<x>> \o SubSeq(r, n + 1, Len(r))

\* sorted(): stable, so an element goes after those already placed whose key is
\* not greater.
SortedInsert(r, x) ==
    LET n == Cardinality({i \in 1..Len(r) : ~KeyLess(x, r[i])})
    IN  SubSeq(r, 1, n) \o <<x>> \o SubSeq(r, n + 1, Len(r))

RECURSIVE sorted(_)
sorted(s) ==
    IF s = <<>> THEN <<>>
    ELSE SortedInsert(sorted(SubSeq(s, 1, Len(s) - 1)), s[Len(s)])

\* The loop body with all() in place of any() over the tags.
Match_AllTags(task, query, status, priority, tags) ==
    /\ TruthyOpt(query) =>
          ~ ( /\ ~StrIn(lower(query[1]), lower(task.title))
              /\ \/ task.description = None
                 \/ ~StrIn(lower(query[1]), lower(task.description[1])) )
    /\ ~(TruthyTok(status) /\ task.status /= status[1])
    /\ ~(TruthyTok(priority) /\ task.priority /= priority)
    /\ ~(TruthyOpt(tags) /\
           ~ \A i \in 1..Len(tags[1]) : ListIn(tags[1][i], task.tags))

\* The loop body with the query looked for in the tags as well.
Match_QueryInTags(task, query, status, priority, tags) ==
    /\ TruthyOpt(query) =>
          ~ ( /\ ~StrIn(lower(query[1]), lower(task.title))
              /\ \/ task.description = None
                 \/ ~StrIn(lower(query[1]), lower(task.description[1]))
              /\ ~ \E i \in 1..Len(task.tags) :
                     StrIn(lower(query[1]), lower(task.tags[i])) )
    /\ ~(TruthyTok(status) /\ task.status /= status[1])
    /\ ~(TruthyTok(priority) /\ task.priority /= priority)
    /\ ~(TruthyOpt(tags) /\
           ~ \E i \in 1..Len(tags[1]) : ListIn(tags[1][i], task.tags))

\* The body of the loop of search_tasks: the value of match for one task.
Match(task, query, status, priority, tags) ==
    /\ TruthyOpt(query) =>
          ~ ( /\ ~StrIn(lower(query[1]), lower(task.title))
              /\ \/ task.description = None
                 \/ ~StrIn(lower(query[1]), lower(task.description[1])) )
    /\ ~(TruthyTok(status) /\ task.status /= status[1])
    /\ ~(TruthyTok(priority) /\ task.priority /= priority)
    /\ ~(TruthyOpt(tags) /\
           ~ \E i \in 1..Len(tags[1]) : ListIn(tags[1][i], task.tags))

\* results, as the loop of search_tasks leaves it.
RECURSIVE SearchLoop(_, _, _, _, _)
SearchLoop(vals, query, status, priority, tags) ==
    IF vals = <<>> THEN <<>>
    ELSE LET rest == SearchLoop(SubSeq(vals, 1, Len(vals) - 1), query, status, priority, tags)
             task == vals[Len(vals)]
         IN  IF Match(task, query, status, priority, tags)
             THEN Append(rest, task)
             ELSE rest

\* --------------------------------------------------------- InMemoryStorage

Mem_add_task(d, task) ==
    IF ~Truthy(task.title)
    THEN [tasks |-> d, out |-> ValueError(EmptyTitle)]
    ELSE IF task.id \in Keys(d)
    THEN [tasks |-> d, out |-> ValueError(AlreadyExists)]
    ELSE [tasks |-> Store(d, task.id, task), out |-> Returned(<<>>)]

Mem_delete_task(d, task_id) ==
    IF task_id \notin Keys(d)
    THEN [tasks |-> d, out |-> KeyError(NotFound)]
    ELSE [tasks |-> Remove(d, task_id), out |-> Returned(<<>>)]

\* update_task stamping modified_at whether or not a field was set.
Mem_update_task_AlwaysStamp(d, task_id, kwargs, now) ==
    IF task_id \notin Keys(d)
    THEN [tasks |-> d, out |-> KeyError(NotFound)]
    ELSE LET r == UpdateLoop(Lookup(d, task_id), kwargs, 1, FALSE)
             stamped == setattr(r.task, "modified_at", Some(now))
         IN  IF r.raised
             THEN [tasks |-> Store(d, task_id, r.task),
                   out |-> ValueError(InvalidPriority)]
             ELSE [tasks |-> Store(d, task_id, stamped),
                   out |-> Returned(<<stamped>>)]

\* The stored object is changed in place, so what the loop did before
\* validate_priority raised stays done.
Mem_update_task(d, task_id, kwargs, now) ==
    IF task_id \notin Keys(d)
    THEN [tasks |-> d, out |-> KeyError(NotFound)]
    ELSE LET r == UpdateLoop(Lookup(d, task_id), kwargs, 1, FALSE)
             stamped == IF r.updated
                        THEN setattr(r.task, "modified_at", Some(now))
                        ELSE r.task
         IN  IF r.raised
             THEN [tasks |-> Store(d, task_id, r.task),
                   out |-> ValueError(InvalidPriority)]
             ELSE [tasks |-> Store(d, task_id, stamped),
                   out |-> Returned(<<stamped>>)]

Mem_list_tasks(d) == sorted(Values(d))

Mem_get_task(d, task_id) ==
    IF task_id \notin Keys(d)
    THEN KeyError(NotFound)
    ELSE Returned(<<Lookup(d, task_id)>>)

\* search_tasks returning results as the loop leaves it.
Mem_search_tasks_Unsorted(d, query, status, priority, tags) ==
    SearchLoop(Values(d), query, status, priority, tags)

Mem_search_tasks(d, query, status, priority, tags) ==
    sorted(SearchLoop(Values(d), query, status, priority, tags))

\* ------------------------------------------------------------- FileStorage

\* add_task without the check of the title.
File_add_task_NoTitleCheck(d, f, task) ==
    IF task.id \in Keys(d)
    THEN [tasks |-> d, file |-> f, out |-> ValueError(AlreadyExists)]
    ELSE LET d2 == Store(d, task.id, task)
         IN  [tasks |-> d2, file |-> _save_tasks(d2), out |-> Returned(<<>>)]

\* add_task without the check of the id: the new task replaces the stored one.
File_add_task_Overwrite(d, f, task) ==
    IF ~Truthy(task.title)
    THEN [tasks |-> d, file |-> f, out |-> ValueError(EmptyTitle)]
    ELSE LET d2 == Store(d, task.id, task)
         IN  [tasks |-> d2, file |-> _save_tasks(d2), out |-> Returned(<<>>)]

\* add_task reading the file again before it stores the task.
File_add_task_Reloading(d, f, task) ==
    LET d0 == _load_tasks(f, now_iso)
    IN  IF ~Truthy(task.title)
        THEN [tasks |-> d, file |-> f, out |-> ValueError(EmptyTitle)]
        ELSE IF task.id \in Keys(d0)
        THEN [tasks |-> d, file |-> f, out |-> ValueError(AlreadyExists)]
        ELSE LET d2 == Store(d0, task.id, task)
             IN  [tasks |-> d2, file |-> _save_tasks(d2), out |-> Returned(<<>>)]

File_add_task(d, f, task) ==
    IF ~Truthy(task.title)
    THEN [tasks |-> d, file |-> f, out |-> ValueError(EmptyTitle)]
    ELSE IF task.id \in Keys(d)
    THEN [tasks |-> d, file |-> f, out |-> ValueError(AlreadyExists)]
    ELSE LET d2 == Store(d, task.id, task)
         IN  [tasks |-> d2, file |-> _save_tasks(d2), out |-> Returned(<<>>)]

\* What a failed _save_tasks leaves of the file: open(..., 'w') raised and the
\* file is as it was, or the write raised after the file was truncated and
\* what is there does not parse.
FailedWrite(f) == {f, Garbage}

\* add_task taking the entry out again when _save_tasks raises.
File_add_task_Undone(d, f, task, left) ==
    IF ~Truthy(task.title)
    THEN [tasks |-> d, file |-> f, out |-> ValueError(EmptyTitle)]
    ELSE IF task.id \in Keys(d)
    THEN [tasks |-> d, file |-> f, out |-> ValueError(AlreadyExists)]
    ELSE [tasks |-> d, file |-> left, out |-> OSError(WriteFailed)]

\* add_task when _save_tasks raises OSError: the entry is stored already.
File_add_task_OSError(d, f, task, left) ==
    IF ~Truthy(task.title)
    THEN [tasks |-> d, file |-> f, out |-> ValueError(EmptyTitle)]
    ELSE IF task.id \in Keys(d)
    THEN [tasks |-> d, file |-> f, out |-> ValueError(AlreadyExists)]
    ELSE [tasks |-> Store(d, task.id, task), file |-> left, out |-> OSError(WriteFailed)]

\* delete_task written with self._tasks.pop(task_id, None): an absent id is
\* no error.
File_delete_task_Pop(d, f, task_id) ==
    LET d2 == IF task_id \in Keys(d) THEN Remove(d, task_id) ELSE d
    IN  [tasks |-> d2, file |-> _save_tasks(d2), out |-> Returned(<<>>)]

File_delete_task(d, f, task_id) ==
    IF task_id \notin Keys(d)
    THEN [tasks |-> d, file |-> f, out |-> KeyError(NotFound)]
    ELSE LET d2 == Remove(d, task_id)
         IN  [tasks |-> d2, file |-> _save_tasks(d2), out |-> Returned(<<>>)]

\* update_task working on a copy of the stored task, which it stores only
\* when the loop ends without raising.
File_update_task_OnCopy(d, f, task_id, kwargs, now) ==
    IF task_id \notin Keys(d)
    THEN [tasks |-> d, file |-> f, out |-> KeyError(NotFound)]
    ELSE LET r == UpdateLoop(Lookup(d, task_id), kwargs, 1, FALSE)
             stamped == IF r.updated
                        THEN setattr(r.task, "modified_at", Some(now))
                        ELSE r.task
             d2 == Store(d, task_id, stamped)
         IN  IF r.raised
             THEN [tasks |-> d, file |-> f, out |-> ValueError(InvalidPriority)]
             ELSE [tasks |-> d2, file |-> _save_tasks(d2),
                   out |-> Returned(<<stamped>>)]

File_update_task(d, f, task_id, kwargs, now) ==
    IF task_id \notin Keys(d)
    THEN [tasks |-> d, file |-> f, out |-> KeyError(NotFound)]
    ELSE LET r == UpdateLoop(Lookup(d, task_id), kwargs, 1, FALSE)
             stamped == IF r.updated
                        THEN setattr(r.task, "modified_at", Some(now))
                        ELSE r.task
             d2 == Store(d, task_id, stamped)
         IN  IF r.raised
             THEN [tasks |-> Store(d, task_id, r.task), file |-> f,
                   out |-> ValueError(InvalidPriority)]
             ELSE [tasks |-> d2, file |-> _save_tasks(d2),
                   out |-> Returned(<<stamped>>)]

File_list_tasks(d) == sorted(Values(d))

\* get_task written with self._tasks.get(task_id): an absent id returns None.
File_get_task_DictGet(d, task_id) ==
    IF task_id \in Keys(d) THEN Returned(<<Lookup(d, task_id)>>) ELSE Returned(<<>>)

File_get_task(d, task_id) ==
    IF task_id \notin Keys(d)
    THEN KeyError(NotFound)
    ELSE Returned(<<Lookup(d, task_id)>>)

File_search_tasks(d, query, status, priority, tags) ==
    sorted(SearchLoop(Values(d), query, status, priority, tags))

\* ----------------------------------------------------------------- client

\* The ids the client's tasks carry (uuid4 strings; two tasks may be built
\* with the same one).
Ids == {"id1", "id2"}

\* The tasks the client constructs: Task(...) with the given id and
\* created_at, modified_at left at its default.
NewTask(n, id, created_at) ==
    CASE n = 1 -> Task(Milk, id, None, "pending", Some("high"),
                       <<Home, Work>>, created_at, None, None)
      [] n = 2 -> Task(Tea, id, Some(Milk), "completed", Some("low"),
                       <<Work>>, created_at, None, Some(<<"d">>))
      [] n = 3 -> Task(Empty, id, None, "pending", Some("medium"),
                       <<>>, created_at, None, None)
      [] n = 4 -> Task(Home, id, Some(Empty), "pending", None,
                       <<>>, created_at, None, None)
      [] n = 5 -> Task(Home, id, None, "pending", Some("urgent"),
                       <<>>, created_at, None, None)

NewTaskKinds == {1, 2, 3}

\* The keyword arguments the client passes to update_task, in call order.
KwArgs ==
    << <<>>,
       << <<"status", "completed">> >>,
       << <<"priority", Some("high")>> >>,
       << <<"priority", Some("urgent")>> >>,
       << <<"status", "completed">>, <<"priority", Some("urgent")>> >>,
       << <<"priority", Some("urgent")>>, <<"status", "completed">> >>,
       << <<"foo", "bar">> >> >>

KwKeys(kwargs) == {kwargs[i][1] : i \in 1..Len(kwargs)}

\* Values of each search criterion, combined in every way.
Queries == {None, Some(Empty), Some(<<"m", "i", "l", "k">>)}
Statuses == {None, Some(""), Some("completed")}
Priorities == {None, Some(""), Some("high")}
TagLists == {None, Some(<<>>), Some(<<Home, Work>>)}

\* The search calls the client issues: <<query, status, priority, tags>>.
SearchCalls ==
    << <<None, None, None, None>>,
       <<Some(<<"m", "i", "l", "k">>), None, None, None>>,
       <<Some(<<"E", "A">>), None, None, None>>,
       <<Some(Work), None, None, None>>,
       <<None, Some("pending"), None, None>>,
       <<None, Some("completed"), None, None>>,
       <<None, None, Some("high"), None>>,
       <<None, None, None, Some(<<Home>>)>>,
       <<None, None, None, Some(<<Home, Work>>)>>,
       <<None, None, None, Some(<<>>)>>,
       <<Some(Empty), Some(""), Some(""), None>>,
       <<Some(<<"m", "i", "l", "k">>), Some("completed"), None, Some(<<Work>>)>>,
       <<None, Some("pending"), Some("low"), Some(<<Home, Work>>)>> >>

Call(name) == [name |-> name]

\* ----------------------------------------------------------------- actions

Init ==
    /\ mem = <<>>
    /\ file = NoFile
    /\ clock = 0
    /\ tasks = _load_tasks(file, clock)
    /\ tasks2 = _load_tasks(file, clock)
    /\ op = Call("init")
    /\ resM = Returned(<<>>)
    /\ resF = Returned(<<>>)

\* storage.add_task(task)
AddTask(task) ==
    LET m == Mem_add_task(mem, task)
        f == File_add_task(tasks, file, task)
    IN  /\ mem' = m.tasks
        /\ tasks' = f.tasks
        /\ file' = f.file
        /\ op' = Call("add")
        /\ resM' = m.out
        /\ resF' = f.out
        /\ UNCHANGED <<clock, tasks2>>

\* storage.delete_task(task_id)
DeleteTask(task_id) ==
    LET m == Mem_delete_task(mem, task_id)
        f == File_delete_task(tasks, file, task_id)
    IN  /\ mem' = m.tasks
        /\ tasks' = f.tasks
        /\ file' = f.file
        /\ op' = Call("delete")
        /\ resM' = m.out
        /\ resF' = f.out
        /\ UNCHANGED <<clock, tasks2>>

\* storage.update_task(task_id, **kwargs)
UpdateTask(task_id, kwargs) ==
    LET m == Mem_update_task(mem, task_id, kwargs, now_iso)
        f == File_update_task(tasks, file, task_id, kwargs, now_iso)
    IN  /\ mem' = m.tasks
        /\ tasks' = f.tasks
        /\ file' = f.file
        /\ op' = Call("update")
        /\ resM' = m.out
        /\ resF' = f.out
        /\ UNCHANGED <<clock, tasks2>>

\* storage.get_task(task_id)
GetTask(task_id) ==
    /\ op' = Call("get")
    /\ resM' = Mem_get_task(mem, task_id)
    /\ resF' = File_get_task(tasks, task_id)
    /\ UNCHANGED <<mem, tasks, tasks2, file, clock>>

\* storage.list_tasks()
ListTasks ==
    /\ op' = Call("list")
    /\ resM' = Returned(Mem_list_tasks(mem))
    /\ resF' = Returned(File_list_tasks(tasks))
    /\ UNCHANGED <<mem, tasks, tasks2, file, clock>>

\* storage.search_tasks(query, status, priority, tags)
SearchTasks(query, status, priority, tags) ==
    /\ op' = [name |-> "search", args |-> <<query, status, priority, tags>>]
    /\ resM' = Returned(Mem_search_tasks(mem, query, status, priority, tags))
    /\ resF' = Returned(File_search_tasks(tasks, query, status, priority, tags))
    /\ UNCHANGED <<mem, tasks, tasks2, file, clock>>

\* The process holding the FileStorage ends and a new one runs
\* FileStorage.__init__ on the same backing file.
Restart ==
    /\ tasks' = File_init(file, now_iso).tasks
    /\ op' = Call("restart")
    /\ resM' = Returned(<<>>)
    /\ resF' = File_init(file, now_iso).out
    /\ UNCHANGED <<mem, tasks2, file, clock>>

\* A second passes.
Tick ==
    /\ clock < MaxClock
    /\ clock' = clock + 1
    /\ UNCHANGED <<mem, tasks, tasks2, file, op, resM, resF>>

Next ==
    \/ \E n \in NewTaskKinds, id \in Ids, c \in 0..clock : AddTask(NewTask(n, id, c))
    \/ \E id \in Ids : DeleteTask(id)
    \/ \E id \in Ids, k \in 1..Len(KwArgs) : UpdateTask(id, KwArgs[k])
    \/ \E id \in Ids : GetTask(id)
    \/ ListTasks
    \/ Tick

\* One run of the process that holds the two engines.
Spec == Init /\ [][Next]_vars

NextRestart ==
    \/ Next
    \/ Restart

\* The same, with the FileStorage process restarted at any point.
SpecRestart == Init /\ [][NextRestart]_vars

\* -------------------------------------------------- updates of any field

\* The tasks built for these runs, at the second they are added: one with a
\* priority of the enumeration and one with a priority outside it.
FieldTasks ==
    {NewTask(1, "id1", now_iso), NewTask(5, "id2", now_iso)}

\* Keyword arguments naming any attribute of the task, among them id,
\* created_at and modified_at.
FieldKwArgs ==
    << <<>>,
       << <<"status", "completed">> >>,
       << <<"priority", Some("urgent")>> >>,
       << <<"foo", "bar">> >>,
       << <<"id", "id2">> >>,
       << <<"created_at", MaxClock>> >>,
       << <<"modified_at", Some(0)>>, <<"priority", Some("urgent")>> >> >>

NextFields ==
    \/ \E task \in FieldTasks : AddTask(task)
    \/ \E id \in Ids : DeleteTask(id)
    \/ \E id \in Ids, k \in 1..Len(FieldKwArgs) : UpdateTask(id, FieldKwArgs[k])
    \/ Tick

\* One run of the process, the tasks built when they are added and update_task
\* called with any attribute name.
SpecFields == Init /\ [][NextFields]_vars

\* ------------------------------------------- updates with any field value

\* Keyword arguments giving status and title values of any kind: update_task
\* looks at the value of priority only.
ValueKwArgs ==
    << << <<"status", "completed">> >>,
       << <<"status", "archived">> >>,
       << <<"title", Tea>> >>,
       << <<"title", Empty>> >> >>

NextValues ==
    \/ \E task \in FieldTasks : AddTask(task)
    \/ \E id \in Ids : DeleteTask(id)
    \/ \E id \in Ids, k \in 1..Len(ValueKwArgs) : UpdateTask(id, ValueKwArgs[k])
    \/ Tick

\* One run of the process, update_task called with any value for status and
\* title.
SpecValues == Init /\ [][NextValues]_vars

\* ------------------------------------------------ collections for queries

\* The ids of the tasks the queries are run on, in order of insertion.
QueryIds == <<"id1", "id2", "id3">>

\* The tasks a collection is built from: a task of kind 1 or 2 built with
\* either status, or one of kind 4, with any created_at, as add_task stores it.
QueryTasks(id) ==
    {Task(NewTask(n, id, c).title, id, NewTask(n, id, c).description, st,
          NewTask(n, id, c).priority, NewTask(n, id, c).tags, c, None,
          NewTask(n, id, c).due_date) :
        n \in {1, 2}, st \in {"pending", "completed"}, c \in 0..MaxClock}
    \cup {NewTask(4, id, c) : c \in 0..MaxClock}

\* The collections add_task builds from them, in every order of insertion.
Collections ==
    UNION {[1..n -> UNION {QueryTasks(QueryIds[i]) : i \in 1..n}] : n \in 0..Len(QueryIds)}

InitQuery ==
    /\ clock = MaxClock
    /\ \E ts \in Collections :
          /\ \A i \in 1..Len(ts) : ts[i].id = QueryIds[i]
          /\ mem = [i \in 1..Len(ts) |-> [key |-> ts[i].id, val |-> ts[i]]]
    /\ tasks = mem
    /\ tasks2 = <<>>
    /\ file = IF mem = <<>> THEN NoFile ELSE _save_tasks(tasks)
    /\ op = Call("init")
    /\ resM = Returned(<<>>)
    /\ resF = Returned(<<>>)

NextQuery ==
    \/ ListTasks
    \/ \E k \in 1..Len(SearchCalls) :
          SearchTasks(SearchCalls[k][1], SearchCalls[k][2], SearchCalls[k][3], SearchCalls[k][4])

\* list_tasks and search_tasks on each of these collections.
SpecQuery == InitQuery /\ [][NextQuery]_vars

\* ------------------------------------------------- faults of the file

\* Records of a tasks.json written by hand or by another program: a full
\* one, one with id and title only, and one Task(**task_data) rejects.
FullRecord(id) == JsonRecord(to_dict(NewTask(1, id, 0)))
ShortRecord(id) == [id |-> JStr(id), title |-> JStr(Tea)]
BadRecord(id) == [id |-> JStr(id), name |-> JStr(Tea)]

\* The backing file the first engine finds.
FoundFiles ==
    {NoFile, Garbage,
     JsonFile(<< [key |-> "id1", val |-> FullRecord("id1")] >>),
     JsonFile(<< [key |-> "id1", val |-> FullRecord("id1")],
                 [key |-> "id2", val |-> ShortRecord("id2")] >>),
     JsonFile(<< [key |-> "id1", val |-> FullRecord("id1")],
                 [key |-> "id2", val |-> BadRecord("id2")] >>),
     JsonFile(<< [key |-> "id1", val |-> BadRecord("id1")],
                 [key |-> "id2", val |-> FullRecord("id2")] >>)}

InitFaults ==
    /\ mem = <<>>
    /\ file \in FoundFiles
    /\ clock = 0
    /\ tasks = File_init(file, clock).tasks
    /\ tasks2 = <<>>
    /\ op = Call("init")
    /\ resM = Returned(<<>>)
    /\ resF = File_init(file, clock).out

\* storage.add_task(task) with the write of the file failing.
AddTaskWriteFails(task, left) ==
    LET m == Mem_add_task(mem, task)
        f == File_add_task_OSError(tasks, file, task, left)
    IN  /\ mem' = m.tasks
        /\ tasks' = f.tasks
        /\ file' = f.file
        /\ op' = Call("add")
        /\ resM' = m.out
        /\ resF' = f.out
        /\ UNCHANGED <<clock, tasks2>>

\* The update calls of these runs: one that succeeds and one that fails.
FaultKwArgs == <<KwArgs[2], KwArgs[5]>>

NextFaults ==
    \/ \E id \in Ids : AddTask(NewTask(2, id, now_iso))
    \/ \E id \in Ids, left \in FailedWrite(file) :
          AddTaskWriteFails(NewTask(2, id, now_iso), left)
    \/ \E id \in Ids : DeleteTask(id)
    \/ \E id \in Ids, k \in 1..Len(FaultKwArgs) : UpdateTask(id, FaultKwArgs[k])
    \/ \E id \in Ids : GetTask(id)
    \/ Restart

\* An engine constructed on whatever file it finds, writes that may fail, and
\* restarts of the process.
SpecFaults == InitFaults /\ [][NextFaults]_vars

\* ------------------------------------------- the caller keeps a reference

\* get_task returning a copy of the stored entity: the caller's setattr
\* changes the copy.
Alias_Copy(d, task_id, key, value) == d

\* get_task returns self._tasks[task_id], the stored object: what
\* setattr(storage.get_task(task_id), key, value) in the caller leaves of
\* the collection.
Alias(d, task_id, key, value) ==
    Store(d, task_id, setattr(Lookup(d, task_id), key, value))

\* The field the caller sets through the reference.
AliasChanges == << <<"title", Work>> >>

\* t = storage.get_task(task_id); setattr(t, key, value), in the caller.
MutateReturned(task_id, key, value) ==
    /\ Mem_get_task(mem, task_id).kind = "ok"
    /\ File_get_task(tasks, task_id).kind = "ok"
    /\ mem' = Alias(mem, task_id, key, value)
    /\ tasks' = Alias(tasks, task_id, key, value)
    /\ op' = Call("mutate")
    /\ resM' = Mem_get_task(mem', task_id)
    /\ resF' = File_get_task(tasks', task_id)
    /\ UNCHANGED <<tasks2, file, clock>>

NextAlias ==
    \/ \E id \in Ids : AddTask(NewTask(1, id, now_iso))
    \/ \E id \in Ids : DeleteTask(id)
    \/ \E id \in Ids : UpdateTask(id, KwArgs[2])
    \/ \E id \in Ids : GetTask(id)
    \/ ListTasks
    \/ SearchTasks(Some(Work), None, None, None)
    \/ \E id \in Ids, i \in 1..Len(AliasChanges) :
          MutateReturned(id, AliasChanges[i][1], AliasChanges[i][2])
    \/ Tick

\* One run of a process that keeps the tasks get_task returned and writes
\* their attributes.
SpecAlias == Init /\ [][NextAlias]_vars

\* ------------------------------------------- two engines on one file

\* A call on the second FileStorage: it works on its own collection and on
\* the file both share.
OtherCall(name, r) ==
    /\ tasks2' = r.tasks
    /\ file' = r.file
    /\ op' = Call(name)
    /\ resF' = r.out
    /\ resM' = r.out
    /\ UNCHANGED <<mem, tasks, clock>>

\* add_task(task) on the second FileStorage
OtherAddTask(task) == OtherCall("other add", File_add_task(tasks2, file, task))

\* delete_task(task_id) on the second FileStorage
OtherDeleteTask(task_id) ==
    OtherCall("other delete", File_delete_task(tasks2, file, task_id))

\* The second process ends and a new one constructs its FileStorage.
OtherOpen ==
    /\ tasks2' = File_init(file, now_iso).tasks
    /\ op' = Call("other open")
    /\ resF' = File_init(file, now_iso).out
    /\ resM' = File_init(file, now_iso).out
    /\ UNCHANGED <<mem, tasks, file, clock>>

NextTwo ==
    \/ \E id \in Ids : AddTask(NewTask(1, id, now_iso))
    \/ \E id \in Ids : DeleteTask(id)
    \/ \E id \in Ids : OtherAddTask(NewTask(2, id, now_iso))
    \/ \E id \in Ids : OtherDeleteTask(id)
    \/ Restart
    \/ OtherOpen

\* Two processes, each with its FileStorage on the same backing file, their
\* calls interleaved in any order.
SpecTwo == Init /\ [][NextTwo]_vars

\* ---------------------------------------------------------------- the CLI

\* The texts uuid.UUID() accepts: the ids as uuid4 renders them, and another
\* spelling of the first (upper case), which is no key of the collection.
UuidTexts == Ids \cup {"ID1"}

\* validate_uuid that accepts every text.
validate_uuid_Any(uuid_str) == TRUE

\* validate_uuid: TRUE when it returns, FALSE when it raises ValueError.
validate_uuid(uuid_str) == uuid_str \in UuidTexts

InvalidUUID == "Invalid UUID"
InvalidChoice == "argument: invalid choice"

\* parser.error(): usage and message on stderr, exit status 2.
SystemExit(msg) == [kind |-> "SystemExit", msg |-> msg, ret |-> <<>>]

\* What a command did: the collection and file it leaves, what it reported,
\* and whether it called add_task, update_task or delete_task of the engine.
Done(d, f, out, called) == [tasks |-> d, file |-> f, out |-> out, called |-> called]

\* argparse: an option given with choices=[...] must be one of them; an
\* option left out (None) is not looked at.
InChoices(o, choices) == o = None \/ o[1] \in choices

\* cli.add_task(args); tags and due are left at their defaults.
Cli_add_task(d, f, args, id, now) ==
    IF TruthyTok(args.priority) /\ ~validate_priority(args.priority)
    THEN Done(d, f, ValueError(InvalidPriority), FALSE)
    ELSE LET task == Task(args.title, id, None, "pending", args.priority,
                          <<>>, now, None, None)
             r == File_add_task(d, f, task)
         IN  Done(r.tasks, r.file, r.out, TRUE)

\* update_fields as update_task_command builds it, in its order.
UpdateFields(args) ==
    (IF Truthy(args.title) THEN << <<"title", args.title>> >> ELSE <<>>)
    \o (IF TruthyTok(args.status) THEN << <<"status", args.status[1]>> >> ELSE <<>>)
    \o (IF TruthyTok(args.priority) THEN << <<"priority", args.priority>> >> ELSE <<>>)

\* cli.update_task_command(args); the title is "" when the option is left out
\* (None and "" are both falsy there).
Cli_update_task_command(d, f, args, now) ==
    IF ~validate_uuid(args.id)
    THEN Done(d, f, ValueError(InvalidUUID), FALSE)
    ELSE IF TruthyTok(args.priority) /\ ~validate_priority(args.priority)
    THEN Done(d, f, ValueError(InvalidPriority), FALSE)
    ELSE LET r == File_update_task(d, f, args.id, UpdateFields(args), now)
         IN  Done(r.tasks, r.file, r.out, TRUE)

\* cli.delete_task_command(args)
Cli_delete_task_command(d, f, args) ==
    IF ~validate_uuid(args.id)
    THEN Done(d, f, ValueError(InvalidUUID), FALSE)
    ELSE LET r == File_delete_task(d, f, args.id)
         IN  Done(r.tasks, r.file, r.out, TRUE)

\* cli.complete_task_command(args)
Cli_complete_task_command(d, f, args, now) ==
    IF ~validate_uuid(args.id)
    THEN Done(d, f, ValueError(InvalidUUID), FALSE)
    ELSE LET r == File_update_task(d, f, args.id, << <<"status", "completed">> >>, now)
         IN  Done(r.tasks, r.file, r.out, TRUE)

\* The arguments given on the command line.
CliIdArgs == UuidTexts \cup {"non-existent-id"}
CliTitles == {Milk, Empty}
CliAddPriorities == {Some("medium"), Some("high"), Some("super-high"), Some("")}
CliStatuses == {None, Some("archived")}
CliUpdatePriorities == {None, Some("low"), Some("super-high")}

\* main() for `todo add <title> --priority <priority>`: the module is
\* imported, which constructs the FileStorage on the backing file, the
\* arguments are parsed and add_task(args) is called.
main_add(f, title, priority, id, now) ==
    LET d == _load_tasks(f, now)
        args == [title |-> title, priority |-> priority]
    IN  IF ~InChoices(priority, {"high", "medium", "low"})
        THEN Done(d, f, SystemExit(InvalidChoice), FALSE)
        ELSE Cli_add_task(d, f, args, id, now)

\* main() for `todo update <id> [--status <status>] [--priority <priority>]`
main_update(f, id, status, priority, now) ==
    LET d == _load_tasks(f, now)
        args == [id |-> id, title |-> Empty, status |-> status, priority |-> priority]
    IN  IF \/ ~InChoices(status, {"pending", "completed"})
           \/ ~InChoices(priority, {"high", "medium", "low"})
        THEN Done(d, f, SystemExit(InvalidChoice), FALSE)
        ELSE Cli_update_task_command(d, f, args, now)

\* main() for `todo delete <id>`
main_delete(f, id, now) ==
    Cli_delete_task_command(_load_tasks(f, now), f, [id |-> id])

\* main() for `todo complete <id>`
main_complete(f, id, now) ==
    Cli_complete_task_command(_load_tasks(f, now), f, [id |-> id], now)

\* One run of the program, after which the process ends.
Command(name, r) ==
    /\ tasks' = r.tasks
    /\ file' = r.file
    /\ op' = [name |-> name, called |-> r.called]
    /\ resF' = r.out
    /\ resM' = r.out
    /\ UNCHANGED <<mem, tasks2, clock>>

CliAdd(title, priority, id) ==
    Command("cli add", main_add(file, title, priority, id, now_iso))

CliUpdate(id, status, priority) ==
    Command("cli update", main_update(file, id, status, priority, now_iso))

CliDelete(id) ==
    Command("cli delete", main_delete(file, id, now_iso))

CliComplete(id) ==
    Command("cli complete", main_complete(file, id, now_iso))

NextCli ==
    \/ \E title \in CliTitles, priority \in CliAddPriorities, id \in Ids :
          CliAdd(title, priority, id)
    \/ \E id \in CliIdArgs, status \in CliStatuses, priority \in CliUpdatePriorities :
          CliUpdate(id, status, priority)
    \/ \E id \in CliIdArgs : CliDelete(id)
    \/ \E id \in CliIdArgs : CliComplete(id)
    \/ Tick

\* The program run from the command line, one command after another.
SpecCli == Init /\ [][NextCli]_vars

\* ============================================================== properties

Mutating == {"add", "update", "delete"}

ValidPriorities == {Some("high"), Some("medium"), Some("low")}

\* kwargs carries a priority outside high, medium, low.
HasInvalidPriority(kwargs) ==
    \E i \in 1..Len(kwargs) :
        kwargs[i][1] = "priority" /\ kwargs[i][2] \notin ValidPriorities

\* C1: an update of a stored task whose fields include a priority outside
\* {high, medium, low} fails with the validation error and leaves every field
\* of the task as it was, whatever else the call supplies and in whatever
\* order, in the in-memory and in the file-backed engine.
C1_InvalidPriorityChangesNothing ==
    [][\A id \in Ids, k \in 1..Len(KwArgs) :
          (/\ UpdateTask(id, KwArgs[k])
           /\ id \in Keys(mem) /\ id \in Keys(tasks)
           /\ HasInvalidPriority(KwArgs[k]))
          => (/\ resM'.kind = "ValueError" /\ resM'.msg = InvalidPriority
              /\ resF'.kind = "ValueError" /\ resF'.msg = InvalidPriority
              /\ mem' = mem
              /\ tasks' = tasks)]_vars

\* C2: after successful add, update and delete calls on the file-backed engine,
\* a fresh engine constructed on the same backing file holds the same tasks
\* under the same keys with the same value in every field, and its list() is
\* the list() of the engine it replaces.
C2_FreshEngineHoldsSameTasks ==
    [][(/\ Restart
        /\ op.name \in Mutating \cup {"init", "restart"}
        /\ resF.kind = "ok")
       => (/\ tasks' = tasks
           /\ File_list_tasks(tasks') = File_list_tasks(tasks))]_vars

\* A fresh engine holds two tasks, one of them updated, and the in-memory engine
\* that ran the same calls holds the same collection.
C2_Witness ==
    /\ op.name = "restart"
    /\ Len(tasks) = 2
    /\ \E i \in 1..2 : tasks[i].val.modified_at /= None
    /\ \E i \in 1..2 : tasks[i].val.due_date /= None
    /\ tasks = mem

\* C3: when add, update or delete returns, normally or with an error, the
\* backing file decodes to the in-memory collection.
C3_FileDecodesToMemory ==
    op.name \in Mutating => _load_tasks(file, now_iso) = tasks

\* C4: add of a task with an empty title fails with the validation error and
\* leaves the collection and the backing file as they were.
C4_EmptyTitleRejected ==
    [][\A n \in NewTaskKinds, id \in Ids, c \in 0..clock :
          (AddTask(NewTask(n, id, c)) /\ NewTask(n, id, c).title = Empty)
          => (/\ resM'.kind = "ValueError" /\ resM'.msg = EmptyTitle
              /\ resF'.kind = "ValueError" /\ resF'.msg = EmptyTitle
              /\ mem' = mem
              /\ tasks' = tasks
              /\ file' = file)]_vars

\* An add was refused for its empty title while the collection held a task.
C4_Witness ==
    /\ op.name = "add"
    /\ resF.msg = EmptyTitle /\ resM.msg = EmptyTitle
    /\ Len(tasks) = 1 /\ Len(mem) = 1
    /\ file = _save_tasks(tasks)

\* C5 as stated: add of a task whose id is already a key fails with the
\* duplicate-key error, the stored entry keeps every field value and the
\* number of stored tasks does not change.
C5_DuplicateIdRejected ==
    [][\A n \in NewTaskKinds, id \in Ids, c \in 0..clock :
          (AddTask(NewTask(n, id, c)) /\ id \in Keys(mem) /\ id \in Keys(tasks))
          => (/\ resM'.kind = "ValueError" /\ resM'.msg = AlreadyExists
              /\ resF'.kind = "ValueError" /\ resF'.msg = AlreadyExists
              /\ Lookup(mem', id) = Lookup(mem, id)
              /\ Lookup(tasks', id) = Lookup(tasks, id)
              /\ Len(mem') = Len(mem)
              /\ Len(tasks') = Len(tasks))]_vars

\* C5 as amended: add of a task whose id is already a key fails, with the
\* duplicate-key error when its title is not empty and with the empty-title
\* error when it is; the stored entry keeps every field value, and the
\* collection and the backing file are as they were.
C5_DuplicateIdRejectedAmended ==
    [][\A n \in NewTaskKinds, id \in Ids, c \in 0..clock :
          (AddTask(NewTask(n, id, c)) /\ id \in Keys(mem) /\ id \in Keys(tasks))
          => LET msg == IF NewTask(n, id, c).title = Empty
                        THEN EmptyTitle ELSE AlreadyExists
             IN  /\ resM'.kind = "ValueError" /\ resM'.msg = msg
                 /\ resF'.kind = "ValueError" /\ resF'.msg = msg
                 /\ Lookup(mem', id) = Lookup(mem, id)
                 /\ Lookup(tasks', id) = Lookup(tasks, id)
                 /\ mem' = mem
                 /\ tasks' = tasks
                 /\ file' = file]_vars

\* An add was refused for its id while the collection held two tasks.
C5_Witness ==
    /\ op.name = "add"
    /\ resF.msg = AlreadyExists /\ resM.msg = AlreadyExists
    /\ Len(tasks) = 2 /\ Len(mem) = 2

\* C6: a task that was added and not deleted since is returned by get with
\* every field as it was at add time, except the fields a later successful
\* update supplied, and modified_at.  Step by step: a successful add makes
\* get return the task as given, and while the task stays stored a field
\* other than modified_at changes only in a successful update that supplies it.
C6_GetReturnsTaskAsAdded ==
    [][/\ \A n \in NewTaskKinds, id \in Ids, c \in 0..clock :
             (AddTask(NewTask(n, id, c)) /\ resM'.kind = "ok" /\ resF'.kind = "ok")
             => (/\ Mem_get_task(mem', id) = Returned(<<NewTask(n, id, c)>>)
                 /\ File_get_task(tasks', id) = Returned(<<NewTask(n, id, c)>>))
       /\ \A id \in Ids :
             (id \in Keys(mem) /\ id \in Keys(tasks) /\ ~(DeleteTask(id) /\ resF'.kind = "ok"))
             => (/\ Mem_get_task(mem', id).kind = "ok"
                 /\ File_get_task(tasks', id).kind = "ok"
                 /\ \A f \in TaskFields \ {"modified_at"} :
                       (\/ Lookup(mem', id)[f] /= Lookup(mem, id)[f]
                        \/ Lookup(tasks', id)[f] /= Lookup(tasks, id)[f])
                       => \E k \in 1..Len(KwArgs) :
                             /\ UpdateTask(id, KwArgs[k])
                             /\ resM'.kind = "ok" /\ resF'.kind = "ok"
                             /\ f \in KwKeys(KwArgs[k]))]_vars

\* C7: a successful delete removes the id, and while the id is absent get,
\* update and delete on it fail with the not-found error; it stays absent
\* until an add of that id succeeds.
C7_DeletedStaysNotFound ==
    [][\A id \in Ids :
          /\ (DeleteTask(id) /\ resM'.kind = "ok") => id \notin Keys(mem')
          /\ (DeleteTask(id) /\ resF'.kind = "ok") => id \notin Keys(tasks')
          /\ id \notin Keys(mem) =>
                /\ (\/ GetTask(id)
                    \/ DeleteTask(id)
                    \/ \E k \in 1..Len(KwArgs) : UpdateTask(id, KwArgs[k]))
                   => (resM'.kind = "KeyError" /\ resM'.msg = NotFound)
                /\ id \in Keys(mem') => (op'.name = "add" /\ resM'.kind = "ok")
          /\ id \notin Keys(tasks) =>
                /\ (\/ GetTask(id)
                    \/ DeleteTask(id)
                    \/ \E k \in 1..Len(KwArgs) : UpdateTask(id, KwArgs[k]))
                   => (resF'.kind = "KeyError" /\ resF'.msg = NotFound)
                /\ id \in Keys(tasks') => (op'.name = "add" /\ resF'.kind = "ok")]_vars

\* The stored tasks were all deleted (the file was written, the collection is
\* empty) and a further delete was refused.
C7_Witness ==
    /\ op.name = "delete"
    /\ resM.kind = "KeyError" /\ resF.kind = "KeyError"
    /\ file.exists /\ file.parses /\ file.obj = <<>>
    /\ tasks = <<>> /\ mem = <<>>

\* C8: get, update and delete with an id that is not in the collection fail
\* with the not-found error and change neither the collection, nor a stored
\* task, nor the backing file.
C8_AbsentIdChangesNothing ==
    [][\A id \in Ids :
          (/\ id \notin Keys(mem) /\ id \notin Keys(tasks)
           /\ \/ GetTask(id)
              \/ DeleteTask(id)
              \/ \E k \in 1..Len(KwArgs) : UpdateTask(id, KwArgs[k]))
          => (/\ resM'.kind = "KeyError" /\ resM'.msg = NotFound
              /\ resF'.kind = "KeyError" /\ resF'.msg = NotFound
              /\ mem' = mem
              /\ tasks' = tasks
              /\ file' = file)]_vars

\* An update of an absent id was refused while the collection held another task.
C8_Witness ==
    /\ op.name = "update"
    /\ resM.kind = "KeyError" /\ resF.kind = "KeyError"
    /\ Len(tasks) = 1 /\ Len(mem) = 1
    /\ file = _save_tasks(tasks)

\* The tasks stored in a collection.
Stored(d) == {d[i].val : i \in 1..Len(d)}

\* l holds each task stored in d exactly once, every task that is not
\* completed before every completed one, and each of the two groups in
\* non-decreasing order of created_at.
ListedInOrder(d, l) ==
    /\ Len(l) = Len(d)
    /\ \A i \in 1..Len(d) : Cardinality({j \in 1..Len(l) : l[j] = d[i].val}) = 1
    /\ \A i, j \in 1..Len(l) :
          i < j => /\ ~(l[i].status = "completed" /\ l[j].status /= "completed")
                   /\ (l[i].status = "completed") = (l[j].status = "completed")
                         => l[i].created_at <= l[j].created_at

\* C9: list() returns each stored task exactly once, the tasks that are not
\* completed before the completed ones, and each group in non-decreasing
\* order of created_at; this is what a list call hands back.
C9_ListOrder ==
    /\ ListedInOrder(mem, Mem_list_tasks(mem))
    /\ ListedInOrder(tasks, File_list_tasks(tasks))
    /\ op.name = "list" =>
          /\ resM.kind = "ok" /\ ListedInOrder(mem, resM.ret)
          /\ resF.kind = "ok" /\ ListedInOrder(tasks, resF.ret)

\* A list call returned three tasks in another order than they were added in:
\* a completed one after a pending one, and two of equal status created at
\* different seconds.
C9_Witness ==
    /\ op.name = "list"
    /\ Len(resF.ret) = 3
    /\ resF.ret /= Values(tasks)
    /\ \E i, j \in 1..3 : resF.ret[i].status = "pending" /\ resF.ret[j].status = "completed"
    /\ \E i, j \in 1..3 :
          /\ resF.ret[i].status = resF.ret[j].status
          /\ resF.ret[i].created_at < resF.ret[j].created_at

\* The text criterion: the query, compared without case, occurs in the title
\* or in the description.
QueryHolds(t, q) ==
    \/ StrIn(lower(q), lower(t.title))
    \/ t.description /= None /\ StrIn(lower(q), lower(t.description[1]))

\* The tags criterion: the task carries at least one of the given tags.
TagsHold(t, tg) == \E x \in {tg[i] : i \in 1..Len(tg)} : ListIn(x, t.tags)

\* The task satisfies every criterion that was supplied (is not None).
SatisfiesSupplied(t, q, st, p, tg) ==
    /\ q /= None => QueryHolds(t, q[1])
    /\ st /= None => t.status = st[1]
    /\ p /= None => t.priority = p
    /\ tg /= None => TagsHold(t, tg[1])

\* The task satisfies every criterion that was supplied with a value other
\* than the empty string or the empty list.
SatisfiesNonEmpty(t, q, st, p, tg) ==
    /\ (q /= None /\ q /= Some(Empty)) => QueryHolds(t, q[1])
    /\ (st /= None /\ st /= Some("")) => t.status = st[1]
    /\ (p /= None /\ p /= Some("")) => t.priority = p
    /\ (tg /= None /\ tg /= Some(<<>>)) => TagsHold(t, tg[1])

\* r holds exactly the tasks of the set, each once.
HoldsExactly(r, set) ==
    /\ {r[i] : i \in 1..Len(r)} = set
    /\ Len(r) = Cardinality(set)

\* C10 as stated: search returns exactly the stored tasks that satisfy every
\* supplied criterion, the tags criterion being that the task carries at least
\* one of the given tags.
C10_SearchConjunction ==
    op.name = "search" =>
        /\ resM.kind = "ok" /\ resF.kind = "ok"
        /\ HoldsExactly(resM.ret,
              {t \in Stored(mem) :
                  SatisfiesSupplied(t, op.args[1], op.args[2], op.args[3], op.args[4])})
        /\ HoldsExactly(resF.ret,
              {t \in Stored(tasks) :
                  SatisfiesSupplied(t, op.args[1], op.args[2], op.args[3], op.args[4])})

\* C10 as amended: search returns exactly the stored tasks that satisfy every
\* criterion supplied with a non-empty value; a criterion supplied as the
\* empty string or the empty list excludes no task.  This is what each search
\* call hands back, and what search_tasks computes for every combination of
\* the criteria on every collection (a collection is the same in every state
\* after it is drawn, so the combinations are tried where it is drawn).
C10_SearchConjunctionNonEmpty ==
    /\ op.name = "search" =>
          /\ resM.kind = "ok" /\ resF.kind = "ok"
          /\ HoldsExactly(resM.ret,
                {t \in Stored(mem) :
                    SatisfiesNonEmpty(t, op.args[1], op.args[2], op.args[3], op.args[4])})
          /\ HoldsExactly(resF.ret,
                {t \in Stored(tasks) :
                    SatisfiesNonEmpty(t, op.args[1], op.args[2], op.args[3], op.args[4])})
    /\ op.name = "init" =>
          \A q \in Queries, st \in Statuses, p \in Priorities, tg \in TagLists :
              /\ HoldsExactly(Mem_search_tasks(mem, q, st, p, tg),
                              {t \in Stored(mem) : SatisfiesNonEmpty(t, q, st, p, tg)})
              /\ HoldsExactly(File_search_tasks(tasks, q, st, p, tg),
                              {t \in Stored(tasks) : SatisfiesNonEmpty(t, q, st, p, tg)})

\* A search on two tags returned a task that carries only one of them beside a
\* task that carries both, and left out a stored task that carries neither.
C10_Witness ==
    /\ op.name = "search"
    /\ op.args = <<None, None, None, Some(<<Home, Work>>)>>
    /\ \E i \in 1..Len(resF.ret) : resF.ret[i].tags = <<Work>>
    /\ \E i \in 1..Len(resF.ret) : resF.ret[i].tags = <<Home, Work>>
    /\ Len(resF.ret) < Len(tasks)

MatchingOf(l, q, st, p, tg) ==
    SelectSeq(l, LAMBDA t : SatisfiesNonEmpty(t, q, st, p, tg))

\* C12: the result of every search call is the subsequence of list() made of
\* the matching tasks, in the relative order list() has them; with no
\* criterion supplied search() returns the sequence list() returns, on every
\* collection (tried in the state where the collection is drawn).
C12_SearchIsSubsequenceOfList ==
    /\ op.name = "search" =>
          /\ resM.ret = MatchingOf(Mem_list_tasks(mem),
                                   op.args[1], op.args[2], op.args[3], op.args[4])
          /\ resF.ret = MatchingOf(File_list_tasks(tasks),
                                   op.args[1], op.args[2], op.args[3], op.args[4])
    /\ op.name = "init" =>
          /\ Mem_search_tasks(mem, None, None, None, None) = Mem_list_tasks(mem)
          /\ File_search_tasks(tasks, None, None, None, None) = File_list_tasks(tasks)

\* A search by tag returned two of three stored tasks, in list order and not
\* in the order they were added in.
C12_Witness ==
    /\ op.name = "search"
    /\ op.args = <<None, None, None, Some(<<Home, Work>>)>>
    /\ Len(tasks) = 3 /\ Len(resF.ret) = 2 /\ Len(resM.ret) = 2
    /\ resF.ret /= SelectSeq(Values(tasks), LAMBDA t : t \in {resF.ret[1], resF.ret[2]})
    /\ resM.ret /= SelectSeq(Values(mem), LAMBDA t : t \in {resM.ret[1], resM.ret[2]})

\* C13: the two engines, started empty and given the same calls with the same
\* arguments, hand back the same result or the same kind of error at every
\* call and hold the same collection after it; list and every search of the
\* catalogue give the same sequence on both in every state reached.
C13_EnginesEquivalent ==
    /\ resM = resF
    /\ mem = tasks
    /\ Mem_list_tasks(mem) = File_list_tasks(tasks)
    /\ \A k \in 1..Len(SearchCalls) :
          LET c == SearchCalls[k]
          IN  Mem_search_tasks(mem, c[1], c[2], c[3], c[4])
                 = File_search_tasks(tasks, c[1], c[2], c[3], c[4])

\* Both engines raised the validation error on an update of one of two stored
\* tasks, after the loop had set its status, and both hold it completed while
\* the file has it pending.
C13_Witness ==
    /\ op.name = "update"
    /\ resM.kind = "ValueError" /\ resF.kind = "ValueError"
    /\ Len(mem) = 2 /\ Len(tasks) = 2
    /\ \E i \in 1..2 :
          /\ mem[i].val.status = "completed"
          /\ tasks[i].val.status = "completed"
          /\ _load_tasks(file, clock)[i].val.status = "pending"

\* Every entry of the collection is stored under the id its task carries.
KeyIsId(d) == \A i \in 1..Len(d) : d[i].key = d[i].val.id

\* C14: in every reachable state each entry's key equals the id field of the
\* task stored under it, in both engines, in the backing file and in what a
\* fresh engine loads from it, so no two stored tasks carry the same id.
C14_KeyEqualsId ==
    /\ KeyIsId(mem)
    /\ KeyIsId(tasks)
    /\ \A i \in 1..Len(file.obj) : file.obj[i].key = file.obj[i].val.id.v
    /\ KeyIsId(_load_tasks(file, now_iso))
    /\ \A i, j \in 1..Len(tasks) : tasks[i].val.id = tasks[j].val.id => i = j

\* C15: no update call, whatever fields it supplies, changes the id or the
\* created_at of a stored task, in either engine.
C15_UpdateKeepsIdAndCreatedAt ==
    [][\A id \in Ids, k \in 1..Len(FieldKwArgs) :
          (UpdateTask(id, FieldKwArgs[k]) /\ id \in Keys(mem) /\ id \in Keys(tasks))
          => /\ Lookup(mem', id).id = Lookup(mem, id).id
             /\ Lookup(mem', id).created_at = Lookup(mem, id).created_at
             /\ Lookup(tasks', id).id = Lookup(tasks, id).id
             /\ Lookup(tasks', id).created_at = Lookup(tasks, id).created_at]_vars

\* kwargs names at least one attribute of the task.
AppliesField(kwargs) == \E i \in 1..Len(kwargs) : kwargs[i][1] \in TaskFields

C17_ModifiedAtUnsetUntilUpdated ==
    [][\A id \in Ids :
          /\ (op'.name = "add" /\ resM'.kind = "ok" /\ id \in Keys(mem') \ Keys(mem))
                => /\ Lookup(mem', id).modified_at = None
                   /\ Lookup(tasks', id).modified_at = None
          /\ (/\ id \in Keys(mem) /\ id \in Keys(mem')
              /\ id \in Keys(tasks) /\ id \in Keys(tasks')
              /\ Lookup(mem, id).modified_at = None
              /\ Lookup(tasks, id).modified_at = None
              /\ ~ (/\ op'.name = "update" /\ resM'.kind = "ok"
                    /\ \E k \in 1..Len(FieldKwArgs) : UpdateTask(id, FieldKwArgs[k])))
                => /\ Lookup(mem', id).modified_at = None
                   /\ Lookup(tasks', id).modified_at = None]_vars

\* C18: in every reachable state each stored task has modified_at unset or not
\* earlier than its created_at, in both engines.
C18_ModifiedNotBeforeCreated ==
    /\ \A i \in 1..Len(mem) :
          \/ mem[i].val.modified_at = None
          \/ mem[i].val.modified_at[1] >= mem[i].val.created_at
    /\ \A i \in 1..Len(tasks) :
          \/ tasks[i].val.modified_at = None
          \/ tasks[i].val.modified_at[1] >= tasks[i].val.created_at

\* The two collections hold the same tasks under the same keys in the same
\* order, modified_at apart.
SameButModifiedAt(d1, d2) ==
    /\ Len(d1) = Len(d2)
    /\ \A i \in 1..Len(d1) :
          /\ d1[i].key = d2[i].key
          /\ [d1[i].val EXCEPT !.modified_at = None]
                = [d2[i].val EXCEPT !.modified_at = None]

\* C19: update is idempotent up to modified_at: from every reachable state,
\* for every stored task and every set of field values the update accepts,
\* the update applied a second time, at the same second or a later one,
\* succeeds and leaves every field other than modified_at of every task as
\* the first application left it, in both engines and in the backing file.
C19_UpdateIdempotent ==
    \A id \in Ids, k \in 1..Len(FieldKwArgs) :
        LET m1 == Mem_update_task(mem, id, FieldKwArgs[k], clock)
            f1 == File_update_task(tasks, file, id, FieldKwArgs[k], clock)
        IN  (/\ id \in Keys(mem) /\ id \in Keys(tasks)
             /\ m1.out.kind = "ok" /\ f1.out.kind = "ok")
            => \A now \in clock..MaxClock :
                  LET m2 == Mem_update_task(m1.tasks, id, FieldKwArgs[k], now)
                      f2 == File_update_task(f1.tasks, f1.file, id, FieldKwArgs[k], now)
                  IN  /\ m2.out.kind = "ok" /\ f2.out.kind = "ok"
                      /\ SameButModifiedAt(m2.tasks, m1.tasks)
                      /\ SameButModifiedAt(f2.tasks, f1.tasks)
                      /\ SameButModifiedAt(_load_tasks(f2.file, now),
                                           _load_tasks(f1.file, now))

\* An update that sets a field has just returned, and the collection is what
\* the same update gives when applied to it once more.
C19_Witness ==
    /\ op.name = "update"
    /\ resM.kind = "ok" /\ resF.kind = "ok"
    /\ \E id \in Ids :
          /\ id \in Keys(mem)
          /\ Lookup(mem, id).status = "completed"
          /\ Lookup(mem, id).modified_at = Some(clock)
          /\ resM.ret = <<Lookup(mem, id)>>
          /\ Mem_update_task(mem, id, << <<"status", "completed">> >>, clock).tasks = mem
          /\ File_update_task(tasks, file, id, << <<"status", "completed">> >>, clock).tasks = tasks

\* C20: in every reachable state every stored task's priority is one of high,
\* medium, low, or unset, in both engines and in the backing file.
C20_PriorityInEnumeration ==
    /\ \A i \in 1..Len(mem) : mem[i].val.priority \in ValidPriorities \cup {None}
    /\ \A i \in 1..Len(tasks) : tasks[i].val.priority \in ValidPriorities \cup {None}
    /\ \A i \in 1..Len(file.obj) :
          PyOpt(file.obj[i].val.priority) \in ValidPriorities \cup {None}

\* C21: in every reachable state every stored task's status is pending or
\* completed, in both engines and in the backing file.
C21_StatusInEnumeration ==
    /\ \A i \in 1..Len(mem) : mem[i].val.status \in {"pending", "completed"}
    /\ \A i \in 1..Len(tasks) : tasks[i].val.status \in {"pending", "completed"}
    /\ \A i \in 1..Len(file.obj) :
          file.obj[i].val.status.v \in {"pending", "completed"}

\* C22: in every reachable state every stored task has a non-empty title, in
\* both engines and in the backing file.
C22_TitleNonEmpty ==
    /\ \A i \in 1..Len(mem) : mem[i].val.title /= Empty
    /\ \A i \in 1..Len(tasks) : tasks[i].val.title /= Empty
    /\ \A i \in 1..Len(file.obj) : file.obj[i].val.title.v /= Empty

\* The command reported an error and did not call add_task, update_task or
\* delete_task of the engine, and the backing file, hence the collection every
\* later run loads, is as before.
Rejected(r, f) ==
    /\ r.out.kind \in {"ValueError", "SystemExit"}
    /\ r.called = FALSE
    /\ r.file = f
    /\ r.tasks = _load_tasks(f, now_iso)

\* C23: every CLI command given an invalid argument (an id that is no UUID for
\* update, delete or complete; a priority outside high, medium, low for add)
\* reports an error without calling the engine's mutating operation, so the
\* stored collection is the same after the command as before it: this holds
\* for each such command run from any reachable state, and a command that
\* reports the invalid id has not called the engine.
C23_InvalidArgumentRejected ==
    /\ \A id \in CliIdArgs \ UuidTexts :
          /\ Rejected(main_delete(file, id, now_iso), file)
          /\ Rejected(main_complete(file, id, now_iso), file)
          /\ \A status \in CliStatuses, priority \in CliUpdatePriorities :
                Rejected(main_update(file, id, status, priority, now_iso), file)
    /\ \A title \in CliTitles, priority \in CliAddPriorities \ ValidPriorities, id \in Ids :
          Rejected(main_add(file, title, priority, id, now_iso), file)
    /\ (op.name \in {"cli update", "cli delete", "cli complete"}
           /\ resF.msg = InvalidUUID) => op.called = FALSE

\* A delete command given a text that is no UUID reported it without calling
\* the engine, and the two tasks stored before are in the file as they were.
C23_Witness ==
    /\ op.name = "cli delete"
    /\ op.called = FALSE
    /\ resF.kind = "ValueError" /\ resF.msg = InvalidUUID
    /\ Len(tasks) = 2
    /\ file = _save_tasks(tasks)
    /\ \E i \in 1..2 : tasks[i].val.status = "completed"

\* C24: when the write of the file fails inside add of the file-backed
\* engine, the error reaches the caller, the task is in the in-memory
\* collection (get on its id returns it) and a fresh engine on the backing file
\* does not hold it; after every mutating call that returns normally, its
\* write done, the file holds the in-memory collection again.
C24_WriteFailureLeavesTaskInMemory ==
    /\ [][\A id \in Ids, left \in FailedWrite(file) :
             (/\ op'.name = "add" /\ resF'.kind = "OSError"
              /\ AddTaskWriteFails(NewTask(2, id, now_iso), left))
             => /\ File_get_task(tasks', id) = Returned(<<NewTask(2, id, now_iso)>>)
                /\ id \notin Keys(File_init(file', now_iso).tasks)
                /\ File_init(file', now_iso).tasks /= tasks']_vars
    /\ []((op.name \in Mutating /\ resF.kind = "ok")
            => File_init(file, now_iso).tasks = tasks)

\* An add whose write failed left two tasks in memory and a file that a fresh
\* engine loads one task from.
C24_Witness ==
    /\ op.name = "add"
    /\ resF.kind = "OSError"
    /\ Len(tasks) = 2
    /\ Len(File_init(file, now_iso).tasks) = 1

\* C26: constructing the file-backed engine never fails because of the file's
\* content: the constructor returns normally, and with no file or a file that
\* does not parse the engine starts with an empty collection.
C26_ConstructionNeverFails ==
    op.name \in {"init", "restart"} =>
        /\ resF.kind = "ok"
        /\ (~file.exists \/ ~file.parses) => tasks = <<>>

\* The process was restarted on a file a failed write left unparseable: the
\* new engine is empty, while the in-memory engine still holds a task.
C26_Witness ==
    /\ op.name = "restart"
    /\ file = Garbage
    /\ resF.kind = "ok"
    /\ tasks = <<>>
    /\ Len(mem) >= 1

\* The collection holds one entry for every record of the file, under the
\* record's key and in the file's order.
EveryRecord(d, f) ==
    /\ f.exists /\ f.parses
    /\ Len(d) = Len(f.obj)
    /\ \A i \in 1..Len(d) : d[i].key = f.obj[i].key

\* C28: loading is all-or-nothing: after construction the collection is every
\* record of the file or empty, never a proper non-empty subset; and a
\* successful mutating call on an engine that holds nothing of a file that
\* exists (it could not be read) leaves a file that holds that engine's
\* collection and nothing else.
C28_LoadAllOrNothing ==
    /\ [](op.name \in {"init", "restart"} => (tasks = <<>> \/ EveryRecord(tasks, file)))
    /\ [][(/\ tasks = <<>> /\ file.exists
            /\ op'.name \in Mutating /\ resF'.kind = "ok")
           => /\ file' = _save_tasks(tasks')
              /\ EveryRecord(tasks', file')
              /\ Len(file'.obj) = 1]_vars

\* An engine was constructed on a file of two records, the second of which
\* Task(**task_data) rejects, and holds nothing.
C28_Witness ==
    /\ op.name = "init"
    /\ file.exists /\ file.parses
    /\ Len(file.obj) = 2
    /\ Constructible(file.obj[1].val) /\ ~Constructible(file.obj[2].val)
    /\ tasks = <<>>

\* The keys a successful add or delete leaves, given the keys before it.
KeysAfter(name, before, after) ==
    IF name \in {"add", "other add"}
    THEN \E id \in Ids : id \notin before /\ after = before \cup {id}
    ELSE \E id \in Ids : id \in before /\ after = before \ {id}

\* C25: two engines on one file are not coordinated: every successful add or
\* delete of either engine leaves a file that holds that engine's own
\* collection (its entries before the call with the one added or removed) and
\* nothing of what the other engine had saved there: the last writer wins.
C25_LastWriterWins ==
    [][/\ (op'.name \in {"add", "delete"} /\ resF'.kind = "ok")
          => /\ file' = _save_tasks(tasks')
             /\ KeysAfter(op'.name, Keys(tasks), Keys(tasks'))
       /\ (op'.name \in {"other add", "other delete"} /\ resF'.kind = "ok")
          => /\ file' = _save_tasks(tasks2')
             /\ KeysAfter(op'.name, Keys(tasks2), Keys(tasks2'))]_vars

\* A task the first engine added, and saved, is still in that engine's
\* collection and is not in the file after a successful add of the second.
C25_Witness ==
    /\ op.name = "other add" /\ resF.kind = "ok"
    /\ \E id \in Ids :
          /\ id \in Keys(tasks)
          /\ Lookup(tasks, id) = NewTask(1, id, Lookup(tasks, id).created_at)
          /\ id \notin Keys(_load_tasks(file, now_iso))
          /\ id \notin Keys(tasks2)
    /\ tasks2 # <<>>
    /\ file = _save_tasks(tasks2)

\* The elements of a sequence.
Elems(l) == {l[i] : i \in 1..Len(l)}

\* get, list and search on d return the entity e stored under task_id.
Observed(d, task_id, e, get_task(_, _), list_tasks(_), search_tasks(_, _, _, _, _)) ==
    /\ get_task(d, task_id) = Returned(<<e>>)
    /\ e \in Elems(list_tasks(d))
    /\ e \in Elems(search_tasks(d, None, None, None, None))
    /\ e.title = Work => e \in Elems(search_tasks(d, Some(Work), None, None, None))

\* The file decodes to the collection d.
Persisted(d, f) == File_init(f, now_iso).tasks = d

\* C27 as stated: a change made through the returned reference is written
\* to the file by the next add, update or delete call.
C27_NextCallPersists ==
    [][(/\ op.name = "mutate" /\ ~Persisted(tasks, file)
        /\ op'.name \in Mutating)
       => Persisted(tasks', file')]_vars

\* C27: get returns the stored entity: a field set through the returned
\* reference is what get, list and search of that engine return afterwards,
\* modified_at is as it was, and the file is as it was, so that it lacks the
\* change; get, list, search and an add, update or delete that raises leave
\* the file alone; an add, update or delete that returns normally leaves a
\* file that decodes to the whole collection, the change included.
C27_ReferenceChangePersistedBySuccessfulCall ==
    [][/\ (op'.name = "mutate" /\ clock' = clock)
          => \E id \in Keys(tasks), i \in 1..Len(AliasChanges) :
               LET key == AliasChanges[i][1]
                   value == AliasChanges[i][2]
                   e == Lookup(tasks', id)
                   m == Lookup(mem', id)
               IN  /\ MutateReturned(id, key, value)
                   /\ e[key] = value /\ m[key] = value
                   /\ e.modified_at = Lookup(tasks, id).modified_at
                   /\ m.modified_at = Lookup(mem, id).modified_at
                   /\ Observed(tasks', id, e, File_get_task, File_list_tasks, File_search_tasks)
                   /\ Observed(mem', id, m, Mem_get_task, Mem_list_tasks, Mem_search_tasks)
                   /\ file' = file
                   /\ Lookup(tasks, id)[key] # value => ~Persisted(tasks', file')
       /\ (op'.name \in {"get", "list", "search"}) => file' = file /\ tasks' = tasks
       /\ (op'.name \in Mutating /\ resF'.kind # "ok") => file' = file
       /\ (op'.name \in Mutating /\ resF'.kind = "ok") => Persisted(tasks', file')]_vars

\* An add, update or delete has returned normally and the file holds a task
\* whose title was set through the reference and that no update has stamped.
C27_Witness ==
    /\ op.name \in Mutating /\ resF.kind = "ok"
    /\ \E id \in Keys(tasks) :
          /\ Lookup(tasks, id).title = Work
          /\ Lookup(tasks, id).modified_at = None
          /\ id \in Keys(File_init(file, now_iso).tasks)
          /\ Lookup(File_init(file, now_iso).tasks, id).title = Work

\* Tasks of l with equal completion status and equal created_at stand in l in
\* the order in which the collection d holds them, the order of their adding.
TiesInInsertionOrder(d, l) ==
    \A i, j \in 1..Len(l) :
        (/\ i < j
         /\ (l[i].status = "completed") = (l[j].status = "completed")
         /\ l[i].created_at = l[j].created_at)
        => Index(d, l[i].id) < Index(d, l[j].id)

\* C29: list and search return tasks of equal completion status and equal
\* created_at in the order in which they were added, on both engines, and an
\* engine constructed on the file the tasks were saved to lists them in that
\* same order.
C29_TiesKeepInsertionOrder ==
    /\ op.name \in {"list", "search"} =>
          /\ TiesInInsertionOrder(mem, resM.ret)
          /\ TiesInInsertionOrder(tasks, resF.ret)
    /\ op.name = "list" =>
          LET fresh == File_list_tasks(File_init(file, now_iso).tasks)
          IN  /\ TiesInInsertionOrder(tasks, fresh)
              /\ [i \in 1..Len(fresh) |-> fresh[i].id]
                    = [i \in 1..Len(resF.ret) |-> resF.ret[i].id]

\* list() on three tasks created at the same instant, the first added one
\* completed: the two pending ones come first, in the order of their adding.
C29_Witness ==
    /\ op.name = "list"
    /\ Len(resF.ret) = 3
    /\ resF.ret[1].id = "id2" /\ resF.ret[2].id = "id3" /\ resF.ret[3].id = "id1"
    /\ resF.ret[1].created_at = resF.ret[2].created_at
    /\ resF.ret[1].status = "pending" /\ resF.ret[2].status = "pending"
    /\ resM.ret = resF.ret
    /\ file = _save_tasks(tasks)

\* A criterion with the empty value taken away: "" (a text or a list, [])
\* becomes None.
Supplied(o) == IF o = Some(<<>>) THEN None ELSE o

\* The same for a criterion that is a token (status, priority).
SuppliedTok(o) == IF o = Some("") THEN None ELSE o

\* C30: a criterion given as an empty string or an empty list is treated as
\* one not given: every search returns what the search with its empty
\* criteria left out returns, and search(tags=[]), search(query="") return the
\* sequence list() returns (tried on every collection, in the state where it
\* is drawn).
C30_EmptyCriterionIsAbsent ==
    /\ op.name = "search" =>
          /\ resM.ret = Mem_search_tasks(mem, Supplied(op.args[1]), SuppliedTok(op.args[2]),
                                         SuppliedTok(op.args[3]), Supplied(op.args[4]))
          /\ resF.ret = File_search_tasks(tasks, Supplied(op.args[1]), SuppliedTok(op.args[2]),
                                          SuppliedTok(op.args[3]), Supplied(op.args[4]))
    /\ op.name = "init" =>
          /\ Mem_search_tasks(mem, None, None, None, Some(<<>>)) = Mem_list_tasks(mem)
          /\ Mem_search_tasks(mem, Some(Empty), None, None, None) = Mem_list_tasks(mem)
          /\ File_search_tasks(tasks, None, None, None, Some(<<>>)) = File_list_tasks(tasks)
          /\ File_search_tasks(tasks, Some(Empty), None, None, None) = File_list_tasks(tasks)

\* search(tags=[]) on three stored tasks returned the three, as list() has
\* them.
C30_Witness ==
    /\ op.name = "search"
    /\ op.args = <<None, None, None, Some(<<>>)>>
    /\ Len(tasks) = 3
    /\ resF.ret = File_list_tasks(tasks)
    /\ resM.ret = Mem_list_tasks(mem)
    /\ Len(resF.ret) = 3

====
